---- MODULE Spec2Model ----
(***************************************************************************)
(* Model of watch (src/src/main.rs): a file is polled at a fixed interval, *)
(* its content is fingerprinted by hash_file, and check_target copies it   *)
(* to a backup whenever the fingerprint differs from PollContext's         *)
(* cached_hash.  Two threads exist: main (start-up, then a blocking read   *)
(* of standard input) and the timer crate's scheduler thread, which runs   *)
(* the repeating callback.                                                 *)
(*                                                                         *)
(* check_target is modelled in the three places where the rest of the      *)
(* world can interleave with it: after hash_file returned, after fs::copy  *)
(* returned, and after cached_hash was stored.                             *)
(***************************************************************************)
EXTENDS Integers, Sequences, FiniteSets, TLC

VARIABLES
    file,             \* byte content of the watched file (the environment's)
    cached_hash,      \* PollContext.cached_hash : Option<u128>
    quiet,            \* PollContext.quiet
    starting_backup,  \* main's starting_backup flag
    pc,               \* position of each thread
    hash,             \* check_target's local `hash`, per running thread
    due,              \* the repeating schedule's next date has passed
    backups,          \* the backup files written by fs::copy, in order
    log,              \* the lines printed to standard output, in order
    stderr,           \* the panic messages printed to the error stream
    exit_status,      \* "running", or the status the process ended with ("0", "101")
    base,             \* history: what the start-up hash_file call observed
    checks,           \* history: one record per invocation of check_target
    modsSince,        \* history: modifications since the last fingerprint
    nmods,            \* number of modifications of the file so far
    interval_arg,     \* the number written in the --interval argument
    interval,         \* main's `interval`, once parsed
    now,              \* the instant the wall clock shows (the environment's)
    timestamp,        \* check_target's local `timestamp`, per running thread
    taken,            \* history: instants read and the strings made of them
    twin              \* the run with the other quiet flag, fed the same inputs

vars == <<file, cached_hash, quiet, starting_backup, pc, hash, due, backups,
          log, stderr, exit_status, base, checks, modsSince, nmods,
          interval_arg, interval, now, timestamp, taken, twin>>

\* what no step of the polling program changes
setting == <<interval_arg, interval, now, taken>>

----------------------------------------------------------------------------
(* Bounds of the model *)

\* length of hash_buffer (4096 in the source), scaled down
BufLen == 2
\* invocations of check_target in one run
MaxTicks == 4
\* modifications of the watched file in one run
MaxMods == 2

\* contents the watched file takes: two distinct one-byte files, and a
\* two-byte file that extends the first by a zero byte
Contents == { <<1>>, <<2>>, <<1, 0>> }

Threads == {"main", "timer"}

\* bits of the unsigned integer type of the interval (64 in the source),
\* scaled down; the signed type has the same width
IntervalBits == 6

----------------------------------------------------------------------------
(* Option<u128> *)

None == [some |-> FALSE, val |-> <<>>]
Some(v) == [some |-> TRUE, val |-> v]

(* SipHasher 1-3 with the zero key is a fixed function of the bytes written *)
(* to it, in order, however they are split over write calls.  It is taken  *)
(* as injective: a fingerprint is represented by the bytes it was computed *)
(* from.                                                                   *)
finish128(written) == written

Min(a, b) == IF a < b THEN a ELSE b

(* let mut hash_buffer = [0u8; 4096] *)
ZeroBuffer == [k \in 1..BufLen |-> 0]

(* The read loop of hash_file.  file.read returns some n in 1..len(buffer)  *)
(* while bytes remain (Read::read may return fewer bytes than asked for)   *)
(* and overwrites the first n bytes of the buffer; the loop then writes    *)
(* the WHOLE buffer to the hasher.  A read of 0 bytes ends the loop.  The  *)
(* result is the set of byte strings the hasher can have been given.       *)
RECURSIVE ReadLoop(_, _)
ReadLoop(rest, buf) ==
    IF rest = <<>>
    THEN { <<>> }
    ELSE UNION { LET nb == [k \in 1..BufLen |-> IF k <= n THEN rest[k] ELSE buf[k]]
                 IN  { nb \o w : w \in ReadLoop(SubSeq(rest, n + 1, Len(rest)), nb) }
                 : n \in 1..Min(BufLen, Len(rest)) }

(* hash_file: None when the file cannot be opened or a read fails, else    *)
(* Some(fingerprint of what the loop wrote).                               *)
hash_file(content) ==
    { None } \cup { Some(finish128(w)) : w \in ReadLoop(content, ZeroBuffer) }

----------------------------------------------------------------------------
(* The --interval argument *)

RECURSIVE Pow2(_)
Pow2(n) == IF n = 0 THEN 1 ELSE 2 * Pow2(n - 1)

U64_MAX == Pow2(IntervalBits) - 1
I64_MAX == Pow2(IntervalBits - 1) - 1
I64_MIN == 0 - Pow2(IntervalBits - 1)

\* the numbers an argument may spell: from below zero to beyond u64
Args == (0 - 1)..(U64_MAX + 1)

(* str::parse::<u64> and str::parse::<i64> succeed on the numbers the type *)
(* holds.                                                                  *)
ParsesU64(a) == a \in 0..U64_MAX
ParsesI64(a) == a \in I64_MIN..I64_MAX

(* the validator of the interval argument, lines 35-44: "ok" or the error *)
Validator(a) ==
    IF ParsesU64(a)
    THEN IF a = 0 THEN "must be greater than 0" ELSE "ok"
    ELSE "must be parsable as u64"

----------------------------------------------------------------------------
(* The clock and get_timestamp *)

\* the instants the wall clock is taken to show: the fields chrono's
\* DateTime<Utc> gives (a leap second shows as millisecond 1000 and up)
Instants ==
    [year : {0 - 1, 999, 2026, 9999, 10000}, month : {9, 10}, day : {1},
     hour : {0, 23}, minute : {59}, second : {59}, millis : {7, 999, 1000}]

Noon == [year |-> 2026, month |-> 10, day |-> 1, hour |-> 0, minute |-> 59,
         second |-> 59, millis |-> 7]

\* the instants of a run of the polling program: two, a millisecond apart
Clock == { Noon, [Noon EXCEPT !.millis = 999] }

Fields(t) == <<t.year, t.month, t.day, t.hour, t.minute, t.second, t.millis>>

\* a is earlier than b
Earlier(a, b) ==
    \E k \in 1..7 : /\ Fields(a)[k] < Fields(b)[k]
                    /\ \A m \in 1..(k - 1) : Fields(a)[m] = Fields(b)[m]

\* characters are their ASCII codes: '0' is 48, '-' is 45
RECURSIVE Digits(_)
Digits(n) == IF n < 10 THEN <<48 + n>> ELSE Digits(n \div 10) \o <<48 + (n % 10)>>

(* format!("{:0w}", n): the sign if negative, then zeros up to width w,    *)
(* sign included, then the digits; never truncated.                        *)
Pad(n, w) ==
    LET sign == IF n < 0 THEN <<45>> ELSE <<>>
        digits == Digits(IF n < 0 THEN 0 - n ELSE n)
        zeros == w - Len(sign) - Len(digits)
    IN  sign \o [k \in 1..(IF zeros > 0 THEN zeros ELSE 0) |-> 48] \o digits

(* get_timestamp, lines 144-156, applied to the instant Utc::now() gave *)
get_timestamp(t) ==
    Pad(t.year, 4) \o Pad(t.month, 2) \o Pad(t.day, 2) \o Pad(t.hour, 2)
        \o Pad(t.minute, 2) \o Pad(t.second, 2) \o Pad(t.millis, 3)

----------------------------------------------------------------------------
(* History helpers *)

Active == {"hash", "copy", "store"}

\* the invocation of check_target thread t is running
Idx(t) == CHOOSE i \in 1..Len(checks) : checks[i].by = t /\ checks[i].state = "run"

\* before: cached_hash when the invocation compared; seen, fp: the content
\* it fingerprinted and the fingerprint; mods: modifications of the file
\* since the previous fingerprint was taken; raced: the file was modified
\* after this invocation fingerprinted it and before it returned
NewCheck(t) == [by |-> t, state |-> "run", before |-> None, seen |-> <<>>,
                fp |-> None, mods |-> 0, raced |-> FALSE]

\* backups written and lines printed by invocation i
Made(i) == Cardinality({k \in 1..Len(backups) : backups[k].tick = i})
Lines(i) == Cardinality({k \in 1..Len(log) : log[k].tick = i})

Alive == exit_status = "running"

----------------------------------------------------------------------------
(* what main has built at line 76, and the histories empty *)
Built ==
    /\ file \in Contents
    /\ cached_hash = None
    /\ quiet \in BOOLEAN
    /\ starting_backup \in BOOLEAN
    /\ timestamp = [t \in Threads |-> <<>>]
    /\ taken = <<>>
    /\ hash = [t \in Threads |-> None]
    /\ due = FALSE
    /\ backups = <<>>
    /\ log = <<>>
    /\ stderr = <<>>
    /\ exit_status = "running"
    /\ base = [state |-> "none", seen |-> <<>>]
    /\ checks = <<>>
    /\ modsSince = 0
    /\ nmods = 0
    /\ twin = [cached_hash |-> None, backups |-> <<>>, log |-> <<>>,
               copying |-> [t \in Threads |-> FALSE]]

(* the state when main has built the PollContext (line 76), the interval   *)
(* argument accepted and parsed and the wall clock showing some instant.   *)
Init ==
    /\ Built
    /\ pc = [t \in Threads |-> IF t = "main" THEN "start" ELSE "unscheduled"]
    /\ interval_arg = 1
    /\ interval = 1
    /\ now = Noon

(* where a thread continues when check_target returns *)
Return(t) == IF t = "main" THEN "schedule" ELSE "sleep"

\* the repeating timer is scheduled before the start-up check is made
MainStart_SchedulesFirst ==
    /\ Alive
    /\ pc["main"] = "start"
    /\ IF starting_backup
       THEN /\ pc' = [pc EXCEPT !["main"] = "hash", !["timer"] = "sleep"]
            /\ checks' = Append(checks, NewCheck("main"))
            /\ UNCHANGED <<cached_hash, base, modsSince, twin>>
       ELSE /\ \E r \in hash_file(file) :
                 /\ cached_hash' = r
                 /\ twin' = [twin EXCEPT !.cached_hash = r]
                 /\ base' = [state |-> IF r.some THEN "ok" ELSE "failed", seen |-> file]
            /\ pc' = [pc EXCEPT !["main"] = "schedule"]
            /\ modsSince' = 0
            /\ UNCHANGED checks
    /\ UNCHANGED <<file, quiet, starting_backup, hash, due, backups, log, stderr,
                   exit_status, nmods>>
    /\ UNCHANGED <<setting, timestamp>>

(* main, lines 78-84: with starting_backup, call check_target; otherwise   *)
(* cache whatever hash_file returns, None included.                        *)
MainStart ==
    /\ Alive
    /\ pc["main"] = "start"
    /\ IF starting_backup
       THEN /\ pc' = [pc EXCEPT !["main"] = "hash"]
            /\ checks' = Append(checks, NewCheck("main"))
            /\ UNCHANGED <<cached_hash, base, modsSince, twin>>
       ELSE /\ \E r \in hash_file(file) :
                 /\ cached_hash' = r
                 /\ twin' = [twin EXCEPT !.cached_hash = r]
                 /\ base' = [state |-> IF r.some THEN "ok" ELSE "failed", seen |-> file]
            /\ pc' = [pc EXCEPT !["main"] = "schedule"]
            /\ modsSince' = 0
            /\ UNCHANGED checks
    /\ UNCHANGED <<file, quiet, starting_backup, hash, due, backups, log, stderr,
                   exit_status, nmods>>
    /\ UNCHANGED <<setting, timestamp>>

(* main, lines 87-90: Timer::new() and schedule_repeating start the        *)
(* scheduler thread; main goes on to block on standard input.              *)
MainSchedule ==
    /\ Alive
    /\ pc["main"] = "schedule"
    /\ pc' = [pc EXCEPT !["main"] = "stdin", !["timer"] = "sleep"]
    /\ UNCHANGED <<file, cached_hash, quiet, starting_backup, hash, due, backups,
                   log, stderr, exit_status, base, checks, modsSince, nmods>>
    /\ UNCHANGED <<setting, timestamp, twin>>

(* main, lines 93-98: read_line returns, the guard is dropped and main     *)
(* returns: the process ends with status 0, whatever the timer thread is   *)
(* doing.                                                                  *)
MainStdin ==
    /\ Alive
    /\ pc["main"] = "stdin"
    /\ pc' = [pc EXCEPT !["main"] = "done"]
    /\ exit_status' = "0"
    /\ UNCHANGED <<file, cached_hash, quiet, starting_backup, hash, due, backups,
                   log, stderr, base, checks, modsSince, nmods>>
    /\ UNCHANGED <<setting, timestamp, twin>>

(* the interval passes: the schedule's date is now in the past *)
IntervalElapses ==
    /\ Alive
    /\ pc["timer"] # "unscheduled"
    /\ ~due
    /\ due' = TRUE
    /\ UNCHANGED <<file, cached_hash, quiet, starting_backup, pc, hash, backups,
                   log, stderr, exit_status, base, checks, modsSince, nmods>>
    /\ UNCHANGED <<setting, timestamp, twin>>

(* the scheduler thread wakes up, finds the schedule due, re-arms it one   *)
(* interval later and runs the callback itself: check_target begins.       *)
TimerFire ==
    /\ Alive
    /\ pc["timer"] = "sleep"
    /\ due
    /\ Len(checks) < MaxTicks
    /\ due' = FALSE
    /\ pc' = [pc EXCEPT !["timer"] = "hash"]
    /\ checks' = Append(checks, NewCheck("timer"))
    /\ UNCHANGED <<file, cached_hash, quiet, starting_backup, hash, backups, log,
                   stderr, exit_status, base, modsSince, nmods>>
    /\ UNCHANGED <<setting, timestamp, twin>>

(* a failed expect(): the panic message goes to the error stream.  In the  *)
(* main thread the process ends with status 101; in the scheduler thread   *)
(* only that thread unwinds and ends.                                      *)
Panic(t, msg, outcome) ==
    /\ stderr' = Append(stderr, [thread |-> t, msg |-> msg])
    /\ pc' = [pc EXCEPT ![t] = "panicked"]
    /\ exit_status' = IF t = "main" THEN "101" ELSE exit_status
    /\ checks' = [checks EXCEPT ![Idx(t)].state = outcome]

\* the test of line 109 inverted
Label_Inverted(cached) ==
    IF cached = None THEN "File changed!" ELSE "Making a starting backup."

(* check_target, lines 109-113: which of the two lines is printed *)
Label(cached) ==
    IF cached = None THEN "Making a starting backup." ELSE "File changed!"

\* a comparison that only tells a first observation from a later one
NeedsBackup_FirstOnly(cached, h) == cached = None

(* check_target, line 105: the file is backed up when there is no cached   *)
(* hash or the cached hash is not the new one.                             *)
NeedsBackup(cached, h) == cached = None \/ cached.val # h.val

\* the quiet flag keeps the whole block of line 105 from running
Outcome_QuietSkipsBackup(q, cached, h) ==
    [backup |-> NeedsBackup(cached, h) /\ ~q,
     prints |-> NeedsBackup(cached, h) /\ ~q]

(* check_target, lines 105-120, for a run whose quiet flag is q: the copy  *)
(* is made when line 105's test holds, the line is printed when moreover   *)
(* the run is not quiet (line 108).                                        *)
Outcome(q, cached, h) ==
    [backup |-> NeedsBackup(cached, h),
     prints |-> NeedsBackup(cached, h) /\ ~q]

(* the same step of check_target in the run with the other quiet flag: it *)
(* is given the same fingerprint h and the same reading of the clock.      *)
TwinCheckHash(t, h) ==
    LET o == Outcome(~quiet, twin.cached_hash, h)
    IN  [twin EXCEPT
           !.copying[t] = o.backup,
           !.log = IF o.prints
                   THEN Append(@, [label |-> Label(twin.cached_hash),
                                   timestamp |-> get_timestamp(now),
                                   hash |-> h.val])
                   ELSE @]

\* fs::copy with the same outcome; a failure ends the invocation
TwinCheckCopy(t, ok) ==
    [twin EXCEPT
       !.backups = IF ok /\ twin.copying[t]
                   THEN Append(@, [path |-> timestamp[t], content |-> file])
                   ELSE @,
       !.copying[t] = ok /\ @]

\* line 122 in the other run
TwinCheckStore(t) ==
    [twin EXCEPT
       !.cached_hash = IF twin.copying[t] THEN hash[t] ELSE @,
       !.copying[t] = FALSE]

(* check_target, lines 101-114: hash the file, compare with cached_hash,   *)
(* and print the log line when a backup is to be made.                     *)
CheckHash(t) ==
    /\ Alive
    /\ pc[t] = "hash"
    /\ \E r \in hash_file(file) :
         IF ~r.some
         THEN /\ Panic(t, "Unable to hash file", "hashfail")
              /\ UNCHANGED <<hash, log, modsSince, timestamp, twin>>
         ELSE LET i == Idx(t)
                  seen == [checks EXCEPT ![i].before = cached_hash, ![i].seen = file,
                                         ![i].fp = r, ![i].mods = modsSince]
              IN  /\ modsSince' = 0
                  /\ twin' = TwinCheckHash(t, r)
                  /\ IF Outcome(quiet, cached_hash, r).backup
                     THEN /\ timestamp' = [timestamp EXCEPT ![t] = get_timestamp(now)]
                          /\ log' = IF ~Outcome(quiet, cached_hash, r).prints THEN log
                                    ELSE Append(log,
                                           [label |-> Label(cached_hash),
                                            timestamp |-> get_timestamp(now),
                                            hash |-> r.val, tick |-> i])
                          /\ hash' = [hash EXCEPT ![t] = r]
                          /\ pc' = [pc EXCEPT ![t] = "copy"]
                          /\ checks' = seen
                     ELSE /\ pc' = [pc EXCEPT ![t] = Return(t)]
                          /\ checks' = [seen EXCEPT ![i].state = "done"]
                          /\ UNCHANGED <<hash, log, timestamp>>
                  /\ UNCHANGED <<stderr, exit_status>>
    /\ UNCHANGED <<file, cached_hash, quiet, starting_backup, due, backups, base, nmods>>
    /\ UNCHANGED setting

\* the new hash is cached before the copy is attempted
CheckCopy_StoresFirst(t) ==
    /\ Alive
    /\ pc[t] = "copy"
    /\ cached_hash' = hash[t]
    /\ \/ /\ backups' = Append(backups, [path |-> timestamp[t], content |-> file,
                                           tick |-> Idx(t)])
          /\ pc' = [pc EXCEPT ![t] = "store"]
          /\ twin' = TwinCheckCopy(t, TRUE)
          /\ UNCHANGED <<stderr, exit_status, checks>>
       \/ /\ Panic(t, "Unable to copy a backup of file", "copyfail")
          /\ twin' = TwinCheckCopy(t, FALSE)
          /\ UNCHANGED backups
    /\ UNCHANGED <<file, quiet, starting_backup, hash, due, log, base,
                   modsSince, nmods, timestamp>>
    /\ UNCHANGED setting

(* check_target, lines 116-120: fs::copy writes the file's present content *)
(* to the backup path, or fails.  A backup's path is told by the timestamp *)
(* in it, the watched file's name being the same in all of them.           *)
CheckCopy(t) ==
    /\ Alive
    /\ pc[t] = "copy"
    /\ \/ /\ backups' = Append(backups, [path |-> timestamp[t], content |-> file,
                                           tick |-> Idx(t)])
          /\ pc' = [pc EXCEPT ![t] = "store"]
          /\ twin' = TwinCheckCopy(t, TRUE)
          /\ UNCHANGED <<stderr, exit_status, checks>>
       \/ /\ Panic(t, "Unable to copy a backup of file", "copyfail")
          /\ twin' = TwinCheckCopy(t, FALSE)
          /\ UNCHANGED backups
    /\ UNCHANGED <<file, cached_hash, quiet, starting_backup, hash, due, log, base,
                   modsSince, nmods, timestamp>>
    /\ UNCHANGED setting

\* the hash is cached only while none is cached yet
CheckStore_OnlyWhenAbsent(t) ==
    /\ Alive
    /\ pc[t] = "store"
    /\ cached_hash' = IF cached_hash.some THEN cached_hash ELSE hash[t]
    /\ twin' = TwinCheckStore(t)
    /\ pc' = [pc EXCEPT ![t] = Return(t)]
    /\ checks' = [checks EXCEPT ![Idx(t)].state = "done"]
    /\ UNCHANGED <<file, quiet, starting_backup, hash, due, backups, log, stderr,
                   exit_status, base, modsSince, nmods>>
    /\ UNCHANGED <<setting, timestamp>>

(* check_target, line 122: poll_ctx.cached_hash = Some(hash) *)
CheckStore(t) ==
    /\ Alive
    /\ pc[t] = "store"
    /\ cached_hash' = hash[t]
    /\ twin' = TwinCheckStore(t)
    /\ pc' = [pc EXCEPT ![t] = Return(t)]
    /\ checks' = [checks EXCEPT ![Idx(t)].state = "done"]
    /\ UNCHANGED <<file, quiet, starting_backup, hash, due, backups, log, stderr,
                   exit_status, base, modsSince, nmods>>
    /\ UNCHANGED <<setting, timestamp>>

(* another process rewrites the watched file with a different content *)
Modify ==
    /\ Alive
    /\ pc["main"] # "start"
    /\ nmods < MaxMods
    /\ \E c \in Contents \ {file} : file' = c
    /\ nmods' = nmods + 1
    /\ modsSince' = modsSince + 1
    /\ checks' = [i \in 1..Len(checks) |->
                    IF checks[i].state = "run" /\ checks[i].fp.some
                    THEN [checks[i] EXCEPT !.raced = TRUE]
                    ELSE checks[i]]
    /\ UNCHANGED <<cached_hash, quiet, starting_backup, pc, hash, due, backups, log,
                   stderr, exit_status, base>>
    /\ UNCHANGED <<setting, timestamp, twin>>

Next ==
    \/ MainStart
    \/ MainSchedule
    \/ MainStdin
    \/ IntervalElapses
    \/ TimerFire
    \/ \E t \in Threads : CheckHash(t)
    \/ \E t \in Threads : CheckCopy(t)
    \/ \E t \in Threads : CheckStore(t)
    \/ Modify

Spec == Init /\ [][Next]_vars

----------------------------------------------------------------------------
(* The interval argument, from the command line to its use *)

\* the process at get_matches, given any interval argument
ArgsInit ==
    /\ Built
    /\ pc = [t \in Threads |-> IF t = "main" THEN "args" ELSE "unscheduled"]
    /\ interval_arg \in Args
    /\ interval = 0
    /\ now = Noon

(* main, lines 18-59: get_matches runs the validator on the argument; on   *)
(* an error clap prints it with the usage and exits with status 2.         *)
ArgsValidate ==
    /\ Alive
    /\ pc["main"] = "args"
    /\ IF Validator(interval_arg) = "ok"
       THEN /\ pc' = [pc EXCEPT !["main"] = "parse"]
            /\ UNCHANGED <<stderr, exit_status>>
       ELSE /\ pc' = [pc EXCEPT !["main"] = "rejected"]
            /\ stderr' = Append(stderr, [thread |-> "main",
                                         msg |-> Validator(interval_arg)])
            /\ exit_status' = "2"
    /\ UNCHANGED <<file, cached_hash, quiet, starting_backup, hash, due, backups,
                   log, base, checks, modsSince, nmods, interval_arg, interval,
                   now, timestamp, taken, twin>>

(* main, lines 63-67: the argument is parsed again, as i64, and unwrapped: *)
(* a number i64 does not hold panics the main thread.                      *)
ArgsParse ==
    /\ Alive
    /\ pc["main"] = "parse"
    /\ IF ParsesI64(interval_arg)
       THEN /\ interval' = interval_arg
            /\ pc' = [pc EXCEPT !["main"] = "start"]
            /\ UNCHANGED <<stderr, exit_status>>
       ELSE /\ pc' = [pc EXCEPT !["main"] = "panicked"]
            /\ stderr' = Append(stderr,
                    [thread |-> "main",
                     msg |-> "called Result::unwrap() on an Err value"])
            /\ exit_status' = "101"
            /\ UNCHANGED interval
    /\ UNCHANGED <<file, cached_hash, quiet, starting_backup, hash, due, backups,
                   log, base, checks, modsSince, nmods, interval_arg, now,
                   timestamp, taken, twin>>

ArgsNext ==
    \/ ArgsValidate
    \/ ArgsParse

SpecArgs == ArgsInit /\ [][ArgsNext]_vars

----------------------------------------------------------------------------
(* The polling program under a wall clock that moves *)

\* the wall clock shows another instant of S: later, or earlier when it is
\* set back
ClockMoves(S) ==
    /\ \E t \in S \ {now} : now' = t
    /\ UNCHANGED <<file, cached_hash, quiet, starting_backup, pc, hash, due,
                   backups, log, stderr, exit_status, base, checks, modsSince,
                   nmods, interval_arg, interval, timestamp, taken,
                   twin>>

\* the clock moves before check_target reads it; between reads its moves
\* are not seen
ClockStep ==
    /\ Alive
    /\ \E t \in Threads : pc[t] = "hash"
    /\ ClockMoves(Clock)

\* one configuration: quiet, with a starting backup, of a one-byte file
TimeInit ==
    /\ Init
    /\ quiet
    /\ starting_backup
    /\ file = <<1>>

TimeNext ==
    \/ Next
    \/ ClockStep

SpecTime == TimeInit /\ [][TimeNext]_vars

----------------------------------------------------------------------------
(* get_timestamp alone: two readings of the clock, at any two instants *)

FormatInit ==
    /\ Built
    /\ quiet
    /\ starting_backup
    /\ file = <<1>>
    /\ pc = [t \in Threads |-> IF t = "main" THEN "start" ELSE "unscheduled"]
    /\ interval_arg = 1
    /\ interval = 1
    /\ now \in Instants

(* get_timestamp, lines 144-156: read the clock and format the instant *)
TakeTimestamp ==
    /\ Len(taken) < 2
    /\ taken' = Append(taken, [at |-> now, string |-> get_timestamp(now)])
    /\ UNCHANGED <<file, cached_hash, quiet, starting_backup, pc, hash, due,
                   backups, log, stderr, exit_status, base, checks, modsSince,
                   nmods, interval_arg, interval, now, timestamp, twin>>

\* between the two readings the clock moves to any other instant
ClockJump ==
    /\ Len(taken) = 1
    /\ taken[1].at = now
    /\ ClockMoves(Instants)

FormatNext ==
    \/ TakeTimestamp
    \/ ClockJump

SpecFormat == FormatInit /\ [][FormatNext]_vars

----------------------------------------------------------------------------
(* Vocabulary of the properties *)

Mismatch(cached, fp) == ~cached.some \/ cached.val # fp.val

Hashed(i) == checks[i].fp.some
Completed(i) == checks[i].state = "done"

\* every backup of invocation i holds content c
BackupsHold(i, c) ==
    \A k \in 1..Len(backups) : backups[k].tick = i => backups[k].content = c

HashMsg == "Unable to hash file"
CopyMsg == "Unable to copy a backup of file"
Reported(t, m) == \E k \in 1..Len(stderr) : stderr[k] = [thread |-> t, msg |-> m]

Terminated == exit_status \notin {"running", "0"}

----------------------------------------------------------------------------
(* C1: for two consecutive completed invocations of check_target, the     *)
(* later one with a baseline present, if the file was modified exactly    *)
(* once between their fingerprints, to a content other than the one the   *)
(* earlier invocation saw (and not again while the later one ran), then   *)
(* the later invocation wrote exactly one backup, holding the new         *)
(* content, and no following invocation wrote a backup as long as the     *)
(* file stayed unmodified.                                                *)
C1_ChangeTriggersOneBackup ==
    \A i \in 2..Len(checks) :
        ( /\ Completed(i - 1) /\ Completed(i)
          /\ checks[i].before.some
          /\ checks[i].mods = 1
          /\ checks[i].seen # checks[i - 1].seen
          /\ ~checks[i].raced )
        => /\ Made(i) = 1
           /\ BackupsHold(i, checks[i].seen)
           /\ \A j \in (i + 1)..Len(checks) :
                ( /\ Hashed(j)
                  /\ \A m \in (i + 1)..j : checks[m].mods = 0 )
                => Made(j) = 0

(* C2: when the file was not modified between the fingerprints of two     *)
(* consecutive invocations and the earlier one completed, the later one   *)
(* writes no backup, prints no line and leaves cached_hash as it was.     *)
C2_NoChangeIdempotence ==
    \A i \in 2..Len(checks) :
        ( Completed(i - 1) /\ Hashed(i) /\ checks[i].mods = 0 )
        => /\ Made(i) = 0
           /\ Lines(i) = 0
           /\ (i = Len(checks) => cached_hash = checks[i].before)

(* C3: started with the starting-backup option, once the first check has  *)
(* completed: it ran in main before the timer was scheduled, it wrote     *)
(* exactly one backup, its log line (if any) is the starting-backup line, *)
(* cached_hash became the fingerprint it computed, and while the file has *)
(* never been modified there is still exactly that one backup.            *)
C3_StartingBackupEnabled ==
    ( starting_backup /\ Len(checks) >= 1 /\ Completed(1) )
    => /\ checks[1].by = "main"
       /\ Made(1) = 1
       /\ \A k \in 1..Len(log) :
            log[k].tick = 1 => log[k].label = "Making a starting backup."
       /\ (~quiet => Lines(1) = 1)
       /\ (Len(checks) = 1 => cached_hash = checks[1].fp)
       /\ (nmods = 0 => Len(backups) = 1)

(* C4: started without the starting-backup option: establishing the       *)
(* baseline writes no backup; the first tick writes none when it sees the *)
(* content that was there at start-up; and while the file has never been  *)
(* modified there is no backup at all.                                    *)
C4_StartingBackupDisabled ==
    ~starting_backup
    => /\ (Len(checks) = 0 => backups = <<>>)
       /\ ( ( Len(checks) >= 1 /\ Hashed(1) /\ base.state # "none"
              /\ checks[1].seen = base.seen )
            => Made(1) = 0 )
       /\ (nmods = 0 => backups = <<>>)

(* C5: every completed invocation of check_target wrote exactly one       *)
(* backup if cached_hash was absent or differed from the fingerprint it   *)
(* computed, and none otherwise; and every backup there is was written by *)
(* an invocation that saw such a mismatch.                                *)
C5_BackupIffMismatch ==
    /\ \A i \in 1..Len(checks) :
         Completed(i) =>
            Made(i) = IF Mismatch(checks[i].before, checks[i].fp) THEN 1 ELSE 0
    /\ \A k \in 1..Len(backups) :
         /\ backups[k].tick \in 1..Len(checks)
         /\ Hashed(backups[k].tick)
         /\ Mismatch(checks[backups[k].tick].before, checks[backups[k].tick].fp)
         /\ Made(backups[k].tick) = 1

\* both cases in one run: a tick that backed up a change, then a tick that
\* found the fingerprint unchanged
C5_Witness ==
    \E i \in 1..Len(checks) : \E j \in 1..Len(checks) :
        /\ i < j /\ Completed(i) /\ Completed(j)
        /\ checks[i].before.some /\ Made(i) = 1
        /\ checks[j].before.some /\ Made(j) = 0

(* C6: the scenario of the four ticks.  Starting-backup disabled, the     *)
(* baseline taken from a one-byte file A; tick 1 with the file            *)
(* unmodified; the file changed once to a one-byte B; tick 2; tick 3 with *)
(* the file unmodified; the file changed once back to A; tick 4.  As far  *)
(* as the run has followed the scenario: ticks 1 and 3 wrote no backup,   *)
(* tick 2 wrote exactly one, holding B, and tick 4 exactly one, holding A.*)
ScenarioMods == <<0, 1, 0, 1>>

ScenarioSeen(i) == IF i \in {1, 4} THEN base.seen ELSE checks[2].seen

Follows(k) ==
    /\ ~starting_backup
    /\ base.state = "ok"
    /\ Len(base.seen) = 1
    /\ k <= Len(checks)
    /\ \A i \in 1..k :
         /\ Completed(i)
         /\ checks[i].mods = ScenarioMods[i]
         /\ ~checks[i].raced
         /\ Len(checks[i].seen) = 1
         /\ checks[i].seen = ScenarioSeen(i)

C7_TickFailureAbortsProcess ==
    \A i \in 1..Len(checks) :
        ( checks[i].by = "timer" /\ checks[i].state = "hashfail" ) => Terminated

(* C8: whenever an attempt to fingerprint the file failed, at start-up or *)
(* in a check, the process has terminated with the hashing-failure        *)
(* message; after a failed start-up fingerprint polling never begins.     *)
C8_EveryReadFailureFatal ==
    /\ base.state = "failed"
         => /\ Terminated
            /\ Reported("main", HashMsg)
            /\ pc["timer"] = "unscheduled"
            /\ checks = <<>>
    /\ \A i \in 1..Len(checks) :
         checks[i].state = "hashfail"
            => Terminated /\ Reported(checks[i].by, HashMsg)

(* C9: when fs::copy failed in an invocation of check_target, that        *)
(* invocation ended with the copy-failure message, cached_hash holds the  *)
(* value it had before the invocation (the fingerprint it computed is not *)
(* stored), and no later invocation has begun.                            *)
C9_WriteFailureLeavesBaseline ==
    \A i \in 1..Len(checks) :
        checks[i].state = "copyfail"
        => /\ Reported(checks[i].by, CopyMsg)
           /\ pc[checks[i].by] = "panicked"
           /\ cached_hash = checks[i].before
           /\ cached_hash # checks[i].fp
           /\ i = Len(checks)
           /\ (checks[i].by = "main" => Terminated /\ pc["timer"] = "unscheduled")

\* a tick's copy failed with a baseline present, the next interval has
\* passed and the bound on invocations is not what stops the next tick
C9_Witness ==
    /\ Len(checks) >= 2
    /\ Len(checks) < MaxTicks
    /\ checks[Len(checks)].state = "copyfail"
    /\ checks[Len(checks)].by = "timer"
    /\ checks[Len(checks)].before.some
    /\ due
    /\ Alive

(* C10: at most one invocation of check_target is active at any time: the *)
(* start-up check runs before the timer exists, and an invocation that    *)
(* has not returned is the last one begun, also when the next interval    *)
(* has already passed.                                                    *)
C10_TicksNeverOverlap ==
    /\ Cardinality({t \in Threads : pc[t] \in Active}) <= 1
    /\ (pc["main"] \in Active => pc["timer"] = "unscheduled")
    /\ \A i \in 1..Len(checks) : checks[i].state = "run" => i = Len(checks)

\* a tick is still running when the next interval has passed
C10_Witness ==
    /\ pc["timer"] \in {"copy", "store"}
    /\ due
    /\ Alive
    /\ Len(checks) < MaxTicks

(* C11: when read_line returns while a tick is in progress, the tick runs *)
(* to completion before the process exits: once the process has ended     *)
(* with status 0 no invocation of check_target is left unfinished, and    *)
(* every invocation that wrote a backup has stored its fingerprint.       *)
C11_CancellationNeverInterruptsTick ==
    exit_status = "0"
    => \A i \in 1..Len(checks) :
          /\ checks[i].state # "run"
          /\ (Made(i) = 1 => Completed(i))

(* C12: every backup holds the content that its invocation fingerprinted, *)
(* also when the file is modified while the invocation runs; so after a   *)
(* completed invocation that wrote a backup, cached_hash is a fingerprint *)
(* of the backup written last.                                            *)
C12_BackupIsFingerprintedContent ==
    /\ \A k \in 1..Len(backups) :
         backups[k].content = checks[backups[k].tick].seen
    /\ \A i \in 1..Len(checks) :
         ( Completed(i) /\ Made(i) = 1 /\ i = Len(checks) )
         => cached_hash \in hash_file(backups[Len(backups)].content)

(* C13: whatever way the reads split the file, the bytes hash_file gives  *)
(* the hasher are exactly the file's bytes, in order; so two invocations  *)
(* that read the same content compute the same fingerprint.               *)
C13_FingerprintIndependentOfChunks ==
    /\ \A i \in 1..Len(checks) :
         Hashed(i) => checks[i].fp.val = checks[i].seen
    /\ \A i \in 1..Len(checks) : \A j \in 1..Len(checks) :
         ( Hashed(i) /\ Hashed(j) /\ checks[i].seen = checks[j].seen )
         => checks[i].fp = checks[j].fp

(* C14: two invocations that read distinct contents give the hasher       *)
(* distinct data, hence compute distinct fingerprints (the hash taken as  *)
(* injective), and an invocation that reads a content other than the one  *)
(* whose fingerprint is cached finds a mismatch.                          *)
C14_CollisionSensitivity ==
    /\ \A i \in 1..Len(checks) : \A j \in 1..Len(checks) :
         ( Hashed(i) /\ Hashed(j) /\ checks[i].seen # checks[j].seen )
         => checks[i].fp # checks[j].fp
    /\ \A i \in 2..Len(checks) :
         ( /\ Hashed(i - 1) /\ Hashed(i)
           /\ checks[i].before = checks[i - 1].fp
           /\ checks[i].seen # checks[i - 1].seen )
         => Mismatch(checks[i].before, checks[i].fp)

(* C19: in every step: a cached fingerprint never becomes absent again;   *)
(* once a fingerprint is cached, cached_hash changes only at the end of   *)
(* an invocation that wrote a backup; a line labelled as a starting       *)
(* backup is printed only while no such line and no backup exists yet, so *)
(* it is the only one and its backup the first; every other line printed  *)
(* is the file-changed line; and unless quiet, every backup written has   *)
(* its line.                                                              *)
StartingLabel == "Making a starting backup."

C19_Step ==
    /\ cached_hash.some => cached_hash'.some
    /\ ( cached_hash.some /\ cached_hash' # cached_hash )
       => \E t \in Threads : pc[t] = "store" /\ Made(Idx(t)) = 1
    /\ Len(log') > Len(log)
       => IF log'[Len(log')].label = StartingLabel
          THEN /\ backups = <<>>
               /\ \A k \in 1..Len(log) : log[k].label # StartingLabel
          ELSE log'[Len(log')].label = "File changed!"
    /\ ( Len(backups') > Len(backups) /\ ~quiet )
       => \E k \in 1..Len(log) :
             /\ log[k].tick = backups'[Len(backups')].tick
             /\ (log[k].label = StartingLabel => backups = <<>>)

C19_BaselineAbsorbing == [][C19_Step]_vars

\* a starting backup and then a change backed up and stored
C19_Witness ==
    /\ Len(log) >= 2 /\ Len(backups) >= 2
    /\ log[1].label = StartingLabel
    /\ log[2].label = "File changed!"
    /\ backups[1].tick = log[1].tick
    /\ backups[2].tick = log[2].tick
    /\ Completed(log[2].tick)
    /\ cached_hash = checks[log[2].tick].fp

(* C16: every interval argument the validator accepts (an unsigned        *)
(* integer greater than 0) becomes, once main has dealt with it, the      *)
(* interval main uses, with the process alive and about to start; every   *)
(* other argument ends the process with the usage error; none passes the  *)
(* validator and then fails at its use.                                   *)
C16_IntervalValidationComplete ==
    pc["main"] \notin {"args", "parse"}
    => IF interval_arg \in 1..U64_MAX
       THEN pc["main"] = "start" /\ interval = interval_arg /\ Alive
       ELSE pc["main"] = "rejected" /\ exit_status = "2"

(* C17: no backup is written over: any two backups are at distinct paths, *)
(* that is their timestamps differ, and the timestamps do not decrease in *)
(* the order the backups were written, whatever the wall clock does.      *)
LexLess(a, b) ==
    \/ \E k \in 1..Min(Len(a), Len(b)) :
          /\ a[k] < b[k]
          /\ \A m \in 1..(k - 1) : a[m] = b[m]
    \/ /\ Len(a) < Len(b)
       /\ \A m \in 1..Len(a) : a[m] = b[m]

C17_BackupsNeverOverwritten ==
    \A k \in 1..Len(backups) : \A l \in 1..Len(backups) :
        k < l => /\ backups[k].path # backups[l].path
                 /\ LexLess(backups[k].path, backups[l].path)

(* C18: the string made of any instant the clock can show is exactly 17   *)
(* ASCII digits, and of two instants the earlier one's string sorts       *)
(* before the later one's.                                                *)
SeventeenDigits(str) == Len(str) = 17 /\ \A k \in 1..Len(str) : str[k] \in 48..57

C18_TimestampFormat ==
    /\ \A k \in 1..Len(taken) : SeventeenDigits(taken[k].string)
    /\ \A k \in 1..Len(taken) : \A l \in 1..Len(taken) :
         Earlier(taken[k].at, taken[l].at)
         => LexLess(taken[k].string, taken[l].string)

(* C15: quiet affects only logging.  Of two runs given the same file       *)
(* contents, tick times and I/O outcomes and differing only in the quiet   *)
(* flag, the backups written (paths and contents) and the cached_hash      *)
(* values are the same at every step, both runs are at the same place of   *)
(* check_target, and the quiet one has printed no line.                    *)
Artifacts == [k \in 1..Len(backups) |->
                [path |-> backups[k].path, content |-> backups[k].content]]

C15_QuietAffectsOnlyLogging ==
    /\ twin.cached_hash = cached_hash
    /\ twin.backups = Artifacts
    /\ \A t \in Threads : twin.copying[t] = (pc[t] \in {"copy", "store"})
    /\ quiet => log = <<>>
    /\ ~quiet => twin.log = <<>>
    /\ Len(log) + Len(twin.log)
         = Cardinality({i \in 1..Len(checks) :
                          checks[i].fp.some /\ NeedsBackup(checks[i].before, checks[i].fp)})

\* a quiet run that has made a starting backup and a backup of a change,
\* while the other run printed both lines
C15_Witness ==
    /\ quiet
    /\ Len(backups) = 2
    /\ backups[1].content # backups[2].content
    /\ Len(twin.log) = 2
    /\ twin.log[1].label = "Making a starting backup."
    /\ twin.log[2].label = "File changed!"
    /\ twin.cached_hash = cached_hash
    /\ cached_hash.some

====
